---- MODULE Spec2Model ----
(***************************************************************************)
(* A model of pandas_access (src/pandas_access/__init__.py): list_tables,  *)
(* read_schema, to_pandas_schema and read_table.                           *)
(*                                                                         *)
(* Text is a sequence of one-character strings, bytes that are not ASCII   *)
(* are the strings of ByteMarks.  A Python dict is a sequence of           *)
(* <<key, value>> pairs in insertion order, with unique keys.              *)
(***************************************************************************)
EXTENDS Naturals, Sequences, FiniteSets

\* ------------------------------------------------------------------------
\* Bounds of the model.
\* ------------------------------------------------------------------------

\* mdb-tables prints at most this many names ...
MaxNames == 2
\* ... and at most this many characters.
MaxOut == 9

\* A schema handed to to_pandas_schema has at most this many tables ...
MaxSchemaTables == 2
\* ... and at most this many columns over all its tables.
MaxSchemaCols == 3

\* mdb-schema prints at most this many CREATE TABLE blocks ...
MaxBlocks == 2
\* ... each of at most this many column definitions ...
MaxDefs == 2
\* ... and at most this many comment and blank lines between the blocks.
MaxNoise == 1

\* ------------------------------------------------------------------------
\* State.  Each entry point has its own variables; a specification runs one
\* entry point and leaves the others' variables as they start.
\* ------------------------------------------------------------------------

VARIABLES
    lt_names,   \* list_tables: the table names mdb-tables has printed
    lt_stdout,  \* the bytes mdb-tables has printed
    lt_pc,      \* "tool": mdb-tables is printing; "returned": list_tables is done
    lt_ret      \* the list list_tables returned

VARIABLES
    tp_schema,    \* to_pandas_schema: its argument schema (a dict of dicts)
    tp_implicit,  \* its argument implicit_string
    tp_pc,        \* "caller": the caller builds schema; "returned"
    tp_ret        \* the dict to_pandas_schema returned

VARIABLES
    rs_blocks,  \* read_schema: the blocks mdb-schema has printed, each a
                \* record of the table's name and its columns' names and types
    rs_open,    \* mdb-schema is inside a block
    rs_noise,   \* the comment and blank lines mdb-schema has printed
    rs_stdout,  \* the bytes mdb-schema has printed
    rs_pc,      \* "tool": mdb-schema is printing; "returned"
    rs_ret      \* the dict read_schema returned

VARIABLE
    rt          \* read_table: a record of the call's arguments, its position
                \* (pc), its locals, the two subprocesses and what it has done

ltVars == <<lt_names, lt_stdout, lt_pc, lt_ret>>
tpVars == <<tp_schema, tp_implicit, tp_pc, tp_ret>>

rsVars == <<rs_blocks, rs_open, rs_noise, rs_stdout, rs_pc, rs_ret>>

vars == <<ltVars, tpVars, rsVars, rt>>

notLT == <<tpVars, rsVars, rt>>
notTP == <<ltVars, rsVars, rt>>
notRS == <<ltVars, tpVars, rt>>
notRT == <<ltVars, tpVars, rsVars>>

\* ------------------------------------------------------------------------
\* Characters.
\* ------------------------------------------------------------------------

\* str.strip() with no argument and the regex class \s: ASCII whitespace.
WhiteSpace == {" ", "\t", "\n", "\r", "\f"}

UpperSeq ==
    <<"A","B","C","D","E","F","G","H","I","J","K","L","M",
      "N","O","P","Q","R","S","T","U","V","W","X","Y","Z">>

LowerSeq ==
    <<"a","b","c","d","e","f","g","h","i","j","k","l","m",
      "n","o","p","q","r","s","t","u","v","w","x","y","z">>

Digits == {"0","1","2","3","4","5","6","7","8","9"}

\* The regex class \w of a str pattern: letters, digits, the underscore.
WordChars ==
    {UpperSeq[i] : i \in 1..26} \cup {LowerSeq[i] : i \in 1..26}
        \cup Digits \cup {"_", "e_acute"}

IsWord(c) == c \in WordChars

\* A byte of the tools' output that is not ASCII (0xE9, e acute in latin-1).
ByteMarks == {"xE9"}

\* bytes.decode(encoding): ASCII decodes to itself under both encodings; the
\* lone byte 0xE9 is a character under latin-1 and no valid UTF-8.
Decodable(bytes, encoding) ==
    encoding = "latin-1" \/ \A i \in 1..Len(bytes) : bytes[i] \notin ByteMarks

Decode(bytes, encoding) ==
    [i \in 1..Len(bytes) |->
        IF bytes[i] = "xE9" THEN "e_acute" ELSE bytes[i]]

\* ------------------------------------------------------------------------
\* str methods.
\* ------------------------------------------------------------------------

Min(S) == CHOOSE x \in S : \A y \in S : x <= y
Max(S) == CHOOSE x \in S : \A y \in S : x >= y

\* Index of the first character of s, from i on, that is not in set: where a
\* run of characters of set that starts at i ends.  Past the end of s when
\* there is none.
SkipWhile(s, i, set) ==
    LET stops == {j \in i..Len(s) : s[j] \notin set} IN
    IF stops # {} THEN Min(stops)
    ELSE IF i > Len(s) THEN i ELSE Len(s) + 1

\* Index of the last character of s, up to i, that is not in set, or 0.
SkipBack(s, i, set) ==
    LET stops == {j \in 1..i : s[j] \notin set} IN
    IF stops # {} THEN Max(stops) ELSE 0

\* str.strip()
Strip(s) ==
    SubSeq(s, SkipWhile(s, 1, WhiteSpace), SkipBack(s, Len(s), WhiteSpace))

\* Index of the first occurrence of character c in s from i on, or 0.
IndexOf(s, i, c) ==
    LET hits == {j \in i..Len(s) : s[j] = c} IN
    IF hits # {} THEN Min(hits) ELSE 0

\* str.split(sep) for a one-character sep: every occurrence splits, empty
\* pieces are kept, and the empty string splits to one empty piece.
RECURSIVE Split(_, _)
Split(s, sep) ==
    LET k == IndexOf(s, 1, sep) IN
    IF k = 0 THEN <<s>>
    ELSE <<SubSeq(s, 1, k - 1)>> \o Split(SubSeq(s, k + 1, Len(s)), sep)

\* str.startswith(prefix)
StartsWith(s, prefix) ==
    /\ Len(prefix) <= Len(s)
    /\ \A i \in 1..Len(prefix) : s[i] = prefix[i]

\* str.lower()
LowerTable ==
    [c \in {UpperSeq[i] : i \in 1..26} |->
        LowerSeq[CHOOSE i \in 1..26 : UpperSeq[i] = c]]

LowerChar(c) == IF c \in DOMAIN LowerTable THEN LowerTable[c] ELSE c

Lower(s) == [i \in 1..Len(s) |-> LowerChar(s[i])]

\* str.replace(c, '') for a one-character c.
RemoveAll(s, c) == SelectSeq(s, LAMBDA x : x # c)

\* ------------------------------------------------------------------------
\* list_tables
\* ------------------------------------------------------------------------

\* Table names of the databases of the model.
Foo == <<"F","o","o">>
Bar == <<"B","a","r">>
TableNamePool == {Foo, Bar}

\* The separators mdb-tables may print between names.
Separators == {" ", "\t", "\n"}

\* list_tables, from the captured output on.
ListTables(stdout, encoding) ==
    Split(Strip(Decode(stdout, encoding)), " ")

\* mdb-tables prints one more table name, after a separator or first.
MdbTablesPrintName(n) ==
    /\ lt_pc = "tool"
    /\ Len(lt_names) < MaxNames
    /\ Len(lt_stdout) + Len(n) <= MaxOut
    /\ IF lt_stdout = <<>> THEN TRUE
       ELSE lt_stdout[Len(lt_stdout)] \in Separators
    /\ \A i \in 1..Len(lt_names) : lt_names[i] # n
    /\ lt_names' = Append(lt_names, n)
    /\ lt_stdout' = lt_stdout \o n
    /\ UNCHANGED <<lt_pc, lt_ret, notLT>>

\* mdb-tables prints one whitespace character.
MdbTablesPrintSep(c) ==
    /\ lt_pc = "tool"
    /\ Len(lt_stdout) < MaxOut
    /\ lt_stdout' = Append(lt_stdout, c)
    /\ UNCHANGED <<lt_names, lt_pc, lt_ret, notLT>>

\* check_output returns what mdb-tables printed and list_tables returns.
ListTablesCall ==
    /\ lt_pc = "tool"
    /\ lt_pc' = "returned"
    /\ lt_ret' = ListTables(lt_stdout, "latin-1")
    /\ UNCHANGED <<lt_names, lt_stdout, notLT>>

NextLT ==
    \/ \E n \in TableNamePool : MdbTablesPrintName(n)
    \/ \E c \in Separators : MdbTablesPrintSep(c)
    \/ ListTablesCall

\* ------------------------------------------------------------------------
\* dict
\* ------------------------------------------------------------------------

\* list(d.keys())
DictKeys(d) == [i \in 1..Len(d) |-> d[i][1]]

\* k in d
DictHas(d, k) == \E i \in 1..Len(d) : d[i][1] = k

\* d[k], for a key of d
DictGet(d, k) == d[CHOOSE i \in 1..Len(d) : d[i][1] = k][2]

\* d[k] = v: a key of d keeps its place, a new key goes last.
DictSet(d, k, v) ==
    IF DictHas(d, k)
    THEN [i \in 1..Len(d) |-> IF d[i][1] = k THEN <<k, v>> ELSE d[i]]
    ELSE Append(d, <<k, v>>)

\* d.update(other), where the first argument wins: the overlay, reversed.
RECURSIVE DictUpdateKeepsOld(_, _)
DictUpdateKeepsOld(d, other) ==
    IF other = <<>> THEN d
    ELSE DictUpdateKeepsOld(
            IF DictHas(d, Head(other)[1]) THEN d
            ELSE Append(d, Head(other)),
            Tail(other))

\* d.update(other)
RECURSIVE DictUpdate(_, _)
DictUpdate(d, other) ==
    IF other = <<>> THEN d
    ELSE DictUpdate(DictSet(d, Head(other)[1], Head(other)[2]), Tail(other))

\* ------------------------------------------------------------------------
\* _extract_dtype and to_pandas_schema
\* ------------------------------------------------------------------------

\* The literals _extract_dtype tests for.
L_double == <<"d","o","u","b","l","e">>
L_long == <<"l","o","n","g">>
L_bool == <<"b","o","o","l">>
L_text == <<"t","e","x","t">>
L_memo == <<"m","e","m","o">>
L_ole == <<"o","l","e">>

\* np.float_, np.int_, np.bool_, np.str_, np.bytes_ and None are "Float",
\* "Integer", "Boolean", "Text", "Bytes" and "None".
ExtractDtypeLongIsFloat(data_type) ==
    LET t == Lower(data_type) IN
    IF StartsWith(t, L_double) \/ StartsWith(t, L_long) THEN "Float"
    ELSE IF StartsWith(t, L_bool) THEN "Boolean"
    ELSE IF StartsWith(t, L_text) \/ StartsWith(t, L_memo) THEN "Text"
    ELSE IF StartsWith(t, L_ole) THEN "Bytes"
    ELSE "None"

ExtractDtype(data_type) ==
    LET t == Lower(data_type) IN
    IF StartsWith(t, L_double) THEN "Float"
    ELSE IF StartsWith(t, L_long) THEN "Integer"
    ELSE IF StartsWith(t, L_bool) THEN "Boolean"
    ELSE IF StartsWith(t, L_text) \/ StartsWith(t, L_memo) THEN "Text"
    ELSE IF StartsWith(t, L_ole) THEN "Bytes"
    ELSE "None"

\* The inner loop of to_pandas_schema: sub_schema for one table's defs.
RECURSIVE SubSchema(_, _, _)
SubSchema(defs, implicit_string, sub_schema) ==
    IF defs = <<>> THEN sub_schema
    ELSE
        LET column == Head(defs)[1]
            dtype == ExtractDtype(Head(defs)[2])
        IN  SubSchema(Tail(defs), implicit_string,
                IF dtype # "None" THEN DictSet(sub_schema, column, dtype)
                ELSE IF implicit_string THEN DictSet(sub_schema, column, "Text")
                ELSE sub_schema)

\* The outer loop of to_pandas_schema.
RECURSIVE PdSchema(_, _, _)
PdSchema(schema, implicit_string, pd_schema) ==
    IF schema = <<>> THEN pd_schema
    ELSE
        LET tbl == Head(schema)[1]
            defs == Head(schema)[2]
        IN  PdSchema(Tail(schema), implicit_string,
                DictSet(pd_schema, tbl, SubSchema(defs, implicit_string, <<>>)))

ToPandasSchema(schema, implicit_string) ==
    PdSchema(schema, implicit_string, <<>>)

\* Declared types as mdb-schema prints them, and one in capitals.
T_Double == <<"D","o","u","b","l","e">>
T_LongInteger == <<"L","o","n","g"," ","I","n","t","e","g","e","r">>
T_Boolean == <<"B","o","o","l","e","a","n">>
T_Text50 == <<"T","e","x","t"," ","(","5","0",")">>
T_Memo == <<"M","e","m","o","/","H","y","p","e","r","l","i","n","k">>
T_OLE == <<"O","L","E"," ","(","2","5","5",")">>
T_DateTime == <<"D","a","t","e","T","i","m","e">>
T_Numeric == <<"N","u","m","e","r","i","c"," ","(","1","8",","," ","2",")">>
T_DOUBLE == <<"D","O","U","B","L","E">>

DeclaredTypes ==
    {T_Double, T_LongInteger, T_Boolean, T_Text50, T_Memo, T_OLE,
     T_DateTime, T_DOUBLE}

\* Names of tables and columns, by position.
Baz == <<"B","a","z">>
Qux == <<"Q","u","x">>
TableNameSeq == <<Foo, Bar, Baz, Qux>>
ColumnNameSeq == <<<<"A">>, <<"B">>, <<"C">>, <<"I","d">>, <<"E","_","1">>>>

\* The columns of a schema, over all its tables.
RECURSIVE ColumnCount(_)
ColumnCount(schema) ==
    IF schema = <<>> THEN 0
    ELSE Len(Head(schema)[2]) + ColumnCount(Tail(schema))

\* The caller adds a table with no column yet: schema[tbl] = {}.
CallerAddsTable ==
    /\ tp_pc = "caller"
    /\ Len(tp_schema) < MaxSchemaTables
    /\ tp_schema' = DictSet(tp_schema, TableNameSeq[Len(tp_schema) + 1], <<>>)
    /\ UNCHANGED <<tp_implicit, tp_pc, tp_ret, notTP>>

\* The caller adds a column to the last table: schema[tbl][column] = t.
CallerAddsColumn(t) ==
    /\ tp_pc = "caller"
    /\ tp_schema # <<>>
    /\ ColumnCount(tp_schema) < MaxSchemaCols
    /\ LET n == Len(tp_schema)
           tbl == tp_schema[n][1]
           defs == tp_schema[n][2]
       IN  tp_schema' =
               DictSet(tp_schema, tbl,
                   DictSet(defs, ColumnNameSeq[Len(defs) + 1], t))
    /\ UNCHANGED <<tp_implicit, tp_pc, tp_ret, notTP>>

\* to_pandas_schema(schema, implicit_string)
ToPandasSchemaCall(implicit_string) ==
    /\ tp_pc = "caller"
    /\ tp_pc' = "returned"
    /\ tp_implicit' = implicit_string
    /\ tp_ret' = ToPandasSchema(tp_schema, implicit_string)
    /\ UNCHANGED <<tp_schema, notTP>>

NextTP ==
    \/ CallerAddsTable
    \/ \E t \in DeclaredTypes : CallerAddsColumn(t)
    \/ \E b \in BOOLEAN : ToPandasSchemaCall(b)

\* ------------------------------------------------------------------------
\* TABLE_RE, DEF_RE, _extract_defs and read_schema
\* ------------------------------------------------------------------------

\* str.splitlines() breaks a line at each of these, and at "\r\n" once.
LineBreaks == {"\n", "\r", "\f"}

\* str.splitlines(): the last line needs no line break, and the empty string
\* has no line.
RECURSIVE SplitLines(_)
SplitLines(s) ==
    IF s = <<>> THEN <<>>
    ELSE
        LET breaks == {j \in 1..Len(s) : s[j] \in LineBreaks}
            k == IF breaks # {} THEN Min(breaks) ELSE Len(s) + 1
        IN
        IF k > Len(s) THEN <<s>>
        ELSE
            LET crlf == s[k] = "\r" /\ k < Len(s) /\ s[k + 1] = "\n"
                next == IF crlf THEN k + 2 ELSE k + 1
            IN  <<SubSeq(s, 1, k - 1)>> \o SplitLines(SubSeq(s, next, Len(s)))

\* sep.join(lines) for a one-character sep.
RECURSIVE Join(_, _)
Join(lines, sep) ==
    IF lines = <<>> THEN <<>>
    ELSE IF Len(lines) = 1 THEN lines[1]
    ELSE lines[1] \o <<sep>> \o Join(Tail(lines), sep)

\* s has the literal lit at index p.
LiteralAt(s, p, lit) ==
    /\ p + Len(lit) - 1 <= Len(s)
    /\ \A i \in 1..Len(lit) : s[p + i - 1] = lit[i]

\* The literal TABLE_RE starts with: CREATE TABLE \[
RE_CreateTable ==
    <<"C","R","E","A","T","E"," ","T","A","B","L","E"," ","[">>

\* Index of the first ")" of s from i on that a ";" follows, or 0: where the
\* lazy (.*?\)); ends, the dot matching every character.
FirstClose(s, i) ==
    LET hits == {j \in i..(Len(s) - 1) : s[j] = ")" /\ s[j + 1] = ";"} IN
    IF hits # {} THEN Min(hits) ELSE 0

\* TABLE_RE matched at index p of s: CREATE TABLE \[(\w+)\]\s+\((.*?\));
\* \w+ and \s+ take their whole run, since "]" is no word character and "("
\* no whitespace; group 2 runs to the first ")" that a ";" follows, included.
TableMatch(s, p) ==
    LET w0 == p + Len(RE_CreateTable)
        w1 == SkipWhile(s, w0, WordChars)
        s1 == SkipWhile(s, w1 + 1, WhiteSpace)
        close == FirstClose(s, s1 + 1)
    IN  IF /\ LiteralAt(s, p, RE_CreateTable)
           /\ w1 > w0 /\ w1 <= Len(s) /\ s[w1] = "]"
           /\ s1 > w1 + 1 /\ s1 <= Len(s) /\ s[s1] = "("
           /\ close # 0
        THEN [ok |-> TRUE, table |-> SubSeq(s, w0, w1 - 1),
              defs |-> SubSeq(s, s1 + 1, close), end |-> close + 2]
        ELSE [ok |-> FALSE]

\* TABLE_RE.findall(s) from index p on: the matches, leftmost first, none
\* overlapping another.
RECURSIVE FindAllTables(_, _)
FindAllTables(s, p) ==
    LET starts == {q \in p..Len(s) : TableMatch(s, q).ok} IN
    IF starts = {} THEN <<>>
    ELSE LET m == TableMatch(s, Min(starts)) IN
         <<<<m.table, m.defs>>>> \o FindAllTables(s, m.end)

\* DEF_RE.match(line): \s*\[(\w+)\]\s*(.*)$ from the start of the line.
DefMatch(line) ==
    LET b == SkipWhile(line, 1, WhiteSpace)
        w1 == SkipWhile(line, b + 1, WordChars)
        r == SkipWhile(line, w1 + 1, WhiteSpace)
    IN  IF /\ b <= Len(line) /\ line[b] = "["
           /\ w1 > b + 1 /\ w1 <= Len(line) /\ line[w1] = "]"
        THEN [ok |-> TRUE, column |-> SubSeq(line, b + 1, w1 - 1),
              type |-> SubSeq(line, r, Len(line))]
        ELSE [ok |-> FALSE]

\* The loop of _extract_defs over the lines.
RECURSIVE ExtractDefsLoop(_, _)
ExtractDefsLoop(lines, defs) ==
    IF lines = <<>> THEN defs
    ELSE LET m == DefMatch(Head(lines)) IN
         ExtractDefsLoop(Tail(lines),
            IF m.ok
            THEN DictSet(defs, m.column, Strip(RemoveAll(m.type, ",")))
            ELSE defs)

ExtractDefs(defs_str) == ExtractDefsLoop(SplitLines(defs_str), <<>>)

\* The loop of read_schema over the matches of TABLE_RE.
RECURSIVE SchemaLoop(_, _)
SchemaLoop(matches, schema) ==
    IF matches = <<>> THEN schema
    ELSE SchemaLoop(Tail(matches),
            DictSet(schema, Head(matches)[1], ExtractDefs(Head(matches)[2])))

\* read_schema, from the decoded output on.
ReadSchema(text) ==
    LET lines == SplitLines(text)
        schema_ddl ==
            Join(SelectSeq(lines, LAMBDA l : l # <<>> /\ l[1] # "-"), "\n")
    IN  SchemaLoop(FindAllTables(schema_ddl, 1), <<>>)

\* What mdb-schema prints.
P_Comment == <<"-","-"," ","M","D","B"," ","T","o","o","l","s","\n">>
P_CreateTable ==
    <<"C","R","E","A","T","E"," ","T","A","B","L","E"," ","[">>
P_OpenDefs == <<"]","\n"," ","(","\n">>
P_NextDef == <<","," ","\n">>
P_CloseDefs == <<"\n",")",";","\n">>
P_Def(column, type) == <<"\t","[">> \o column \o <<"]","\t","\t","\t">> \o type

\* A name of two words, as Access allows for tables and columns.
TwoWords(name) == <<"M","y"," ">> \o name

\* The columns mdb-schema prints in the dumps of the model: whether the name
\* is of two words, and the declared type.
DumpColumns ==
    {<<FALSE, T_LongInteger>>, <<FALSE, T_Numeric>>, <<TRUE, T_Text50>>}

\* mdb-schema prints a comment line between two blocks.
MdbSchemaPrintComment ==
    /\ rs_pc = "tool"
    /\ ~rs_open
    /\ rs_noise < MaxNoise
    /\ rs_noise' = rs_noise + 1
    /\ rs_stdout' = rs_stdout \o P_Comment
    /\ UNCHANGED <<rs_blocks, rs_open, rs_pc, rs_ret, notRS>>

\* mdb-schema prints a blank line between two blocks.
MdbSchemaPrintBlank ==
    /\ rs_pc = "tool"
    /\ ~rs_open
    /\ rs_noise < MaxNoise
    /\ rs_noise' = rs_noise + 1
    /\ rs_stdout' = Append(rs_stdout, "\n")
    /\ UNCHANGED <<rs_blocks, rs_open, rs_pc, rs_ret, notRS>>

\* mdb-schema starts the block of the next table, whose name is one word or
\* two.
MdbSchemaOpenBlock(two_words) ==
    /\ rs_pc = "tool"
    /\ ~rs_open
    /\ Len(rs_blocks) < MaxBlocks
    /\ LET word == TableNameSeq[Len(rs_blocks) + 1]
           name == IF two_words THEN TwoWords(word) ELSE word
       IN  /\ rs_blocks' = Append(rs_blocks, [table |-> name, columns |-> <<>>])
           /\ rs_stdout' = rs_stdout \o P_CreateTable \o name \o P_OpenDefs
    /\ rs_open' = TRUE
    /\ UNCHANGED <<rs_noise, rs_pc, rs_ret, notRS>>

\* mdb-schema prints the definition of the block's next column, after a comma
\* when it is not the first.
MdbSchemaPrintDef(two_words, type) ==
    /\ rs_pc = "tool"
    /\ rs_open
    /\ LET n == Len(rs_blocks)
           columns == rs_blocks[n].columns
           word == ColumnNameSeq[Len(columns) + 1]
           name == IF two_words THEN TwoWords(word) ELSE word
       IN  /\ Len(columns) < MaxDefs
           /\ rs_blocks' =
                [rs_blocks EXCEPT ![n].columns =
                    Append(columns, [column |-> name, type |-> type])]
           /\ rs_stdout' =
                rs_stdout \o (IF columns = <<>> THEN <<>> ELSE P_NextDef)
                    \o P_Def(name, type)
    /\ UNCHANGED <<rs_open, rs_noise, rs_pc, rs_ret, notRS>>

\* mdb-schema ends the block.
MdbSchemaCloseBlock ==
    /\ rs_pc = "tool"
    /\ rs_open
    /\ rs_open' = FALSE
    /\ rs_stdout' = rs_stdout \o P_CloseDefs
    /\ UNCHANGED <<rs_blocks, rs_noise, rs_pc, rs_ret, notRS>>

\* mdb-schema exits, check_output returns what it printed and read_schema
\* returns.
ReadSchemaCall ==
    /\ rs_pc = "tool"
    /\ ~rs_open
    /\ Decodable(rs_stdout, "utf8")
    /\ rs_pc' = "returned"
    /\ rs_ret' = ReadSchema(Decode(rs_stdout, "utf8"))
    /\ UNCHANGED <<rs_blocks, rs_open, rs_noise, rs_stdout, notRS>>

NextRS ==
    \/ MdbSchemaPrintComment
    \/ MdbSchemaPrintBlank
    \/ \E two_words \in BOOLEAN : MdbSchemaOpenBlock(two_words)
    \/ \E c \in DumpColumns : MdbSchemaPrintDef(c[1], c[2])
    \/ MdbSchemaCloseBlock
    \/ ReadSchemaCall

\* ------------------------------------------------------------------------
\* read_table
\* ------------------------------------------------------------------------

\* An optional value: None, or Some(v).  A keyword argument that is not
\* given, a local that is not bound, a result that is not there are None.
None == <<>>
Some(v) == <<v>>
IsSome(o) == Len(o) = 1
Value(o) == o[1]

\* kwargs.pop(key, default), on the value of the key.
PopOr(o, default) == IF IsSome(o) THEN Value(o) ELSE default

\* The databases of the model: their tables, the columns' declared types and
\* the one row's cells as mdb-export -b octal prints them, and whether
\* mdb-schema prints a byte that is not ASCII in a comment.
Cell_7 == <<"7">>
Cell_x == <<"x">>
Cell_date == <<"0","1","/","0","2","/","2","0">>
Cell_ole == <<"\\","0","0","1","\\","3","7","7","A">>

DB_Shop ==
    [tables |-> <<
        [table |-> Foo, columns |-> <<
            [column |-> <<"A">>, type |-> T_LongInteger, cell |-> Cell_7],
            [column |-> <<"B">>, type |-> T_Text50, cell |-> Cell_x]>>],
        [table |-> Bar, columns |-> <<
            [column |-> <<"A">>, type |-> T_DateTime, cell |-> Cell_date],
            [column |-> <<"C">>, type |-> T_OLE, cell |-> Cell_ole]>>],
        [table |-> Baz, columns |-> <<
            [column |-> <<"A">>, type |-> T_DateTime, cell |-> Cell_date]>>]>>,
     ascii |-> TRUE]

DB_Latin ==
    [tables |-> <<
        [table |-> Foo, columns |-> <<
            [column |-> <<"A">>, type |-> T_LongInteger, cell |-> Cell_7]>>]>>,
     ascii |-> FALSE]

DB_Empty == [tables |-> <<>>, ascii |-> TRUE]

Databases == {DB_Shop, DB_Latin, DB_Empty}

\* The table names read_table is called with: Qux is in no database.
TableArgs == {Foo, Bar, Baz, Qux}

\* The keyword arguments read_table is called with.
KwargsSet ==
    [converters_from_schema : {None, Some(FALSE)},
     dtype : {None, Some(<<<<<<"A">>, "Text">>>>)},
     schema_encoding : {None, Some("latin-1")},
     implicit_string : {None, Some(FALSE)}]

\* What mdb-schema prints for a database.
RECURSIVE PrintDefs(_)
PrintDefs(columns) ==
    IF columns = <<>> THEN <<>>
    ELSE P_Def(Head(columns).column, Head(columns).type)
            \o (IF Len(columns) > 1 THEN P_NextDef ELSE <<>>)
            \o PrintDefs(Tail(columns))

RECURSIVE PrintBlocks(_)
PrintBlocks(tables) ==
    IF tables = <<>> THEN <<>>
    ELSE P_CreateTable \o Head(tables).table \o P_OpenDefs
            \o PrintDefs(Head(tables).columns) \o P_CloseDefs \o <<"\n">>
            \o PrintBlocks(Tail(tables))

P_Latin == <<"-","-"," ","C","a","f","xE9","\n">>

MdbSchemaOutput(db) ==
    P_Comment \o (IF db.ascii THEN <<>> ELSE P_Latin) \o <<"\n">>
        \o PrintBlocks(db.tables)

\* The table of a database by name, None when it has none of that name.
TableOf(db, table_name) ==
    LET hits == {i \in 1..Len(db.tables) : db.tables[i].table = table_name} IN
    IF hits = {} THEN None ELSE Some(db.tables[Min(hits)])

\* What pd.read_csv makes of the CSV mdb-export prints for a table: the
\* header's column names and the one row.
FrameOf(table) ==
    [columns |-> [i \in 1..Len(table.columns) |-> table.columns[i].column],
     row |-> [i \in 1..Len(table.columns) |-> table.columns[i].cell]]

\* ord(c), for the characters of the cells.
DigitSeq == <<"0","1","2","3","4","5","6","7","8","9">>
DigitValue(c) == (CHOOSE i \in 1..10 : DigitSeq[i] = c) - 1
OctalDigits == {"0","1","2","3","4","5","6","7"}
Ord(c) ==
    IF c \in Digits THEN 48 + DigitValue(c)
    ELSE IF c \in DOMAIN LowerTable
         THEN 64 + (CHOOSE i \in 1..26 : UpperSeq[i] = c)
    ELSE IF \E i \in 1..26 : LowerSeq[i] = c
         THEN 96 + (CHOOSE i \in 1..26 : LowerSeq[i] = c)
    ELSE IF c = "/" THEN 47
    ELSE 63

\* codecs.escape_decode(x)[0] for the escapes mdb-export -b octal prints: a
\* backslash and up to three octal digits are one byte, another character is
\* its own byte.
RECURSIVE EscapeDecode(_)
EscapeDecode(x) ==
    IF x = <<>> THEN <<>>
    ELSE IF x[1] = "\\" /\ Len(x) >= 2 /\ x[2] \in OctalDigits
    THEN LET end == Min({SkipWhile(x, 2, OctalDigits), 5})
             RECURSIVE Oct(_, _)
             Oct(i, acc) ==
                IF i >= end THEN acc
                ELSE Oct(i + 1, acc * 8 + DigitValue(x[i]))
         IN  <<Oct(2, 0) % 256>> \o EscapeDecode(SubSeq(x, end, Len(x)))
    ELSE <<Ord(x[1])>> \o EscapeDecode(Tail(x))

\* line 153: whether the schema is scraped, by converters_from_schema.
ScrapesAlways(converters_from_schema) == TRUE

ScrapesSchema(converters_from_schema) == PopOr(converters_from_schema, TRUE)

\* line 158, where every table has an entry: a missing one an empty dict.
SchemaLookupOrEmpty(schemas, table_name) ==
    IF DictHas(schemas, table_name)
    THEN Some(DictGet(schemas, table_name))
    ELSE Some(<<>>)

\* line 158: schemas[table_name], None when it raises KeyError.
SchemaLookup(schemas, table_name) ==
    IF DictHas(schemas, table_name)
    THEN Some(DictGet(schemas, table_name))
    ELSE None

\* The names of the keyword parameters pd.read_csv takes, of those a call of
\* the model may hand it.
ReadCsvParameters == {"dtype"}

\* The keywords of a kwargs record that are given.
Given(kwargs) == {k \in DOMAIN kwargs : IsSome(kwargs[k])}

NoKwargs ==
    [converters_from_schema |-> None, dtype |-> None,
     schema_encoding |-> None, implicit_string |-> None]

\* Before read_table is called.
RtIdle ==
    [pc |-> "idle", db |-> DB_Empty, installed |-> TRUE, table_name |-> Foo,
     args |-> NoKwargs, kwargs |-> NoKwargs,
     specified_dtypes |-> None, schema_encoding |-> None,
     output |-> None, schema |-> None, inferred |-> None, dtypes |-> None,
     schema_proc |-> "none", export_proc |-> "none", export_pipe |-> "none",
     spawned |-> <<>>, csv_kwargs |-> None, df |-> None, column |-> 0,
     exc |-> None, ret |-> None]

\* raise: the exception and the line that raises it.
Raise(r, type, line) ==
    [r EXCEPT !.pc = "raised", !.exc = Some([type |-> type, line |-> line])]

\* read_table(rdb_file, table_name, **kwargs) is called, with the tools
\* installed or not.
ReadTableCall(db, table_name, kwargs, installed) ==
    /\ rt.pc = "idle"
    /\ rt' = [rt EXCEPT !.pc = "line153", !.db = db, !.installed = installed,
                        !.table_name = table_name, !.args = kwargs,
                        !.kwargs = kwargs]
    /\ UNCHANGED notRT

\* lines 153-155: converters_from_schema is popped and, when it is true,
\* dtype and schema_encoding are.
PopArguments ==
    /\ rt.pc = "line153"
    /\ rt' =
        IF ScrapesSchema(rt.kwargs.converters_from_schema)
        THEN [rt EXCEPT
                !.pc = "line97",
                !.specified_dtypes = Some(PopOr(rt.kwargs.dtype, <<>>)),
                !.schema_encoding =
                    Some(PopOr(rt.kwargs.schema_encoding, "utf8")),
                !.kwargs = [rt.kwargs EXCEPT
                                !.converters_from_schema = None,
                                !.dtype = None,
                                !.schema_encoding = None]]
        ELSE [rt EXCEPT
                !.pc = "line170",
                !.kwargs = [rt.kwargs EXCEPT !.converters_from_schema = None]]
    /\ UNCHANGED notRT

\* line 97: check_output starts mdb-schema, or raises when there is no such
\* executable.
StartSchema ==
    /\ rt.pc = "line97"
    /\ rt' =
        IF rt.installed
        THEN [rt EXCEPT !.pc = "line97_wait", !.schema_proc = "running",
                        !.spawned = Append(@, "mdb-schema")]
        ELSE Raise([rt EXCEPT !.spawned = Append(@, "mdb-schema")],
                   "FileNotFoundError", 97)
    /\ UNCHANGED notRT

\* line 97: mdb-schema exits and check_output reaps it, and returns what it
\* printed or raises on a status that is not 0.
SchemaExits(status) ==
    /\ rt.pc = "line97_wait"
    /\ rt' =
        IF status = 0
        THEN [rt EXCEPT !.pc = "line98", !.schema_proc = "reaped",
                        !.output = Some(MdbSchemaOutput(rt.db))]
        ELSE Raise([rt EXCEPT !.schema_proc = "reaped"],
                   "CalledProcessError", 97)
    /\ UNCHANGED notRT

\* lines 98-105 and 156-161: the output is decoded and scraped, the schema
\* typed, the table's types looked up and overlaid with dtype, and the
\* result made the dtype of kwargs unless it is empty.
ScrapeAndMerge ==
    /\ rt.pc = "line98"
    /\ rt' =
        IF ~Decodable(Value(rt.output), Value(rt.schema_encoding))
        THEN Raise(rt, "UnicodeDecodeError", 98)
        ELSE
            LET schema ==
                    ReadSchema(Decode(Value(rt.output),
                                      Value(rt.schema_encoding)))
                schemas ==
                    ToPandasSchema(schema,
                                   PopOr(rt.kwargs.implicit_string, TRUE))
                popped == [rt.kwargs EXCEPT !.implicit_string = None]
                found == SchemaLookup(schemas, rt.table_name)
            IN  IF ~IsSome(found)
                THEN Raise([rt EXCEPT !.schema = Some(schema),
                                      !.kwargs = popped],
                           "KeyError", 158)
                ELSE
                    LET dtypes ==
                            DictUpdate(Value(found),
                                       Value(rt.specified_dtypes))
                    IN  [rt EXCEPT
                            !.pc = "line170",
                            !.schema = Some(schema),
                            !.inferred = found,
                            !.dtypes = Some(dtypes),
                            !.kwargs =
                                IF dtypes # <<>>
                                THEN [popped EXCEPT !.dtype = Some(dtypes)]
                                ELSE popped]
    /\ UNCHANGED notRT

\* lines 163-170: Popen starts mdb-export with a pipe for its output, or
\* raises when there is no such executable.
StartExport ==
    /\ rt.pc = "line170"
    /\ rt' =
        IF rt.installed
        THEN [rt EXCEPT !.pc = "line171", !.export_proc = "running",
                        !.export_pipe = "open",
                        !.spawned = Append(@, "mdb-export")]
        ELSE Raise([rt EXCEPT !.spawned = Append(@, "mdb-export")],
                   "FileNotFoundError", 170)
    /\ UNCHANGED notRT

\* mdb-export exits: a child that read_table has not waited for.
ExportExits ==
    /\ rt.export_proc = "running"
    /\ rt' = [rt EXCEPT !.export_proc = "exited"]
    /\ UNCHANGED notRT

\* line 171: pd.read_csv(proc.stdout, keep_default_na=False, **kwargs).  A
\* keyword that is no parameter of read_csv is a TypeError; mdb-export
\* prints nothing for a table the database has not, and read_csv raises on
\* no data; the parser may reject what it reads; else the frame.
ReadCsv(parses) ==
    /\ rt.pc = "line171"
    /\ LET table == TableOf(rt.db, rt.table_name)
           called == [rt EXCEPT !.csv_kwargs = Some(rt.kwargs)]
       IN  rt' =
            IF ~(Given(rt.kwargs) \subseteq ReadCsvParameters)
            THEN Raise(rt, "TypeError", 171)
            ELSE IF ~IsSome(table)
            THEN Raise(called, "EmptyDataError", 171)
            ELSE IF ~parses
            THEN Raise(called, "ParserError", 171)
            ELSE [called EXCEPT !.pc = "line174",
                                !.df = Some(FrameOf(Value(table))),
                                !.column = 1]
    /\ UNCHANGED notRT

\* lines 174-178: one turn of the loop over df.columns.  dtypes is not bound
\* when the schema was not scraped; dtypes[column] raises KeyError for a
\* column that has no type; the cells of a Bytes column are decoded.
FixupColumn ==
    /\ rt.pc = "line174"
    /\ rt.column <= Len(Value(rt.df).columns)
    /\ LET df == Value(rt.df)
           column == df.columns[rt.column]
       IN  rt' =
            IF ~IsSome(rt.dtypes)
            THEN Raise(rt, "UnboundLocalError", 175)
            ELSE IF ~DictHas(Value(rt.dtypes), column)
            THEN Raise(rt, "KeyError", 175)
            ELSE IF DictGet(Value(rt.dtypes), column) = "Bytes"
            THEN [rt EXCEPT
                    !.column = @ + 1,
                    !.df = Some([df EXCEPT
                                    !.row[rt.column] = EscapeDecode(@)])]
            ELSE [rt EXCEPT !.column = @ + 1]
    /\ UNCHANGED notRT

\* line 180: return df.
ReturnFrame ==
    /\ rt.pc = "line174"
    /\ rt.column > Len(Value(rt.df).columns)
    /\ rt' = [rt EXCEPT !.pc = "returned", !.ret = rt.df]
    /\ UNCHANGED notRT

NextRT ==
    \/ \E db \in Databases, table_name \in TableArgs, kwargs \in KwargsSet,
          installed \in BOOLEAN :
            ReadTableCall(db, table_name, kwargs, installed)
    \/ PopArguments
    \/ StartSchema
    \/ \E status \in {0, 1} : SchemaExits(status)
    \/ ScrapeAndMerge
    \/ StartExport
    \/ ExportExits
    \/ \E parses \in BOOLEAN : ReadCsv(parses)
    \/ FixupColumn
    \/ ReturnFrame

\* ------------------------------------------------------------------------
\* Specifications
\* ------------------------------------------------------------------------

\* Before any entry point is called: mdb-tables has printed nothing and the
\* caller of to_pandas_schema has built nothing; mdb-schema has printed
\* nothing; read_table is not called yet.
Init ==
    /\ lt_names = <<>>
    /\ lt_stdout = <<>>
    /\ lt_pc = "tool"
    /\ lt_ret = <<>>
    /\ tp_schema = <<>>
    /\ tp_implicit = TRUE
    /\ tp_pc = "caller"
    /\ tp_ret = <<>>
    /\ rs_blocks = <<>>
    /\ rs_open = FALSE
    /\ rs_noise = 0
    /\ rs_stdout = <<>>
    /\ rs_pc = "tool"
    /\ rs_ret = <<>>
    /\ rt = RtIdle

\* read_table on the databases of the model.
Spec == Init /\ [][NextRT]_vars

\* list_tables on what mdb-tables prints.
SpecTables == Init /\ [][NextLT]_vars

\* to_pandas_schema on the schemas a caller builds.
SpecTypes == Init /\ [][NextTP]_vars

\* read_schema on what mdb-schema prints.
SpecSchema == Init /\ [][NextRS]_vars

\* ------------------------------------------------------------------------
\* Claims
\* ------------------------------------------------------------------------

\* The Type Mapper's rule: prefix, type, in matching order.
PrefixRule ==
    <<<<L_double, "Float">>, <<L_long, "Integer">>, <<L_bool, "Boolean">>,
      <<L_text, "Text">>, <<L_memo, "Text">>, <<L_ole, "Bytes">>>>

\* s starts with prefix p, letter case apart.
HasPrefixCI(s, p) ==
    /\ Len(s) >= Len(p)
    /\ \A i \in 1..Len(p) : LowerChar(s[i]) = LowerChar(p[i])

\* The type of the first rule whose prefix the declared type has, or "None".
RuleType(t) ==
    IF \E i \in 1..Len(PrefixRule) : HasPrefixCI(t, PrefixRule[i][1])
    THEN LET first == CHOOSE i \in 1..Len(PrefixRule) :
                 /\ HasPrefixCI(t, PrefixRule[i][1])
                 /\ \A j \in 1..(i - 1) : ~HasPrefixCI(t, PrefixRule[j][1])
         IN  PrefixRule[first][2]
    ELSE "None"

\* The columns of defs a typed table keeps, in the order of defs.
KeptColumns(defs, implicit_string) ==
    SelectSeq(defs, LAMBDA d : RuleType(d[2]) # "None" \/ implicit_string)

\* C1: to_pandas_schema returns the same table names, types each column by
\* the first matching case-insensitive prefix of its declared type, types a
\* column that matches no prefix Text when implicit_string and leaves it out
\* otherwise, adds no column and keeps the order of the definition.
C1_TypedSchema ==
    tp_pc = "returned" =>
        /\ DictKeys(tp_ret) = DictKeys(tp_schema)
        /\ \A i \in 1..Len(tp_schema) :
            LET kept == KeptColumns(tp_schema[i][2], tp_implicit)
                typed == tp_ret[i][2]
            IN  /\ DictKeys(typed) = DictKeys(kept)
                /\ \A j \in 1..Len(kept) :
                    typed[j][2] =
                        IF RuleType(kept[j][2]) # "None"
                        THEN RuleType(kept[j][2])
                        ELSE "Text"

\* C1's case: two tables, a column of a known type and one of an unknown
\* type, typed without implicit_string.
C1_Witness ==
    /\ tp_pc = "returned"
    /\ ~tp_implicit
    /\ Len(tp_schema) = 2
    /\ \E i \in 1..2 :
        /\ Len(tp_schema[i][2]) = 2
        /\ RuleType(tp_schema[i][2][1][2]) = "Integer"
        /\ RuleType(tp_schema[i][2][2][2]) = "None"
        /\ Len(tp_ret[i][2]) = 1

\* C8: for every output of zero or more whitespace-separated table names,
\* list_tables returns exactly those names, in output order, with no empty
\* element; the empty database yields the empty list.
C8_ListTablesReturnsNames ==
    lt_pc = "returned" => lt_ret = lt_names

\* The columns of a printed block whose name is one word: the definitions
\* DEF_RE takes.
WordColumns(block) ==
    SelectSeq(block.columns, LAMBDA c : \A i \in 1..Len(c.column) : IsWord(c.column[i]))

\* C2: read_schema returns one entry per CREATE TABLE block of the dump, in
\* the order of the blocks, and the columns of each entry in the order of
\* their definitions in the block.
C2_OneEntryPerBlock ==
    rs_pc = "returned" =>
        /\ Len(rs_ret) = Len(rs_blocks)
        /\ \A i \in 1..Len(rs_blocks) :
            /\ rs_ret[i][1] = rs_blocks[i].table
            /\ DictKeys(rs_ret[i][2]) =
                [j \in 1..Len(WordColumns(rs_blocks[i])) |->
                    WordColumns(rs_blocks[i])[j].column]

\* C9: the declared type read_schema stores for a column is the text after
\* the bracketed name less the trailing comma and the whitespace around it,
\* the commas inside it kept; a definition of another shape is skipped.
C9_DeclaredTypeKept ==
    rs_pc = "returned" =>
        \A i \in 1..Len(rs_ret) :
            \A b \in 1..Len(rs_blocks) :
                rs_blocks[b].table = rs_ret[i][1] =>
                    LET kept == WordColumns(rs_blocks[b]) IN
                    /\ Len(rs_ret[i][2]) = Len(kept)
                    /\ \A j \in 1..Len(kept) :
                        rs_ret[i][2][j] = <<kept[j].column, kept[j].type>>

\* read_table: type inference is on, by the arguments of the call.
InferenceOn ==
    \/ ~IsSome(rt.args.converters_from_schema)
    \/ Value(rt.args.converters_from_schema)

\* read_table has returned or raised.
Finished == rt.pc \in {"returned", "raised"}

\* The subprocesses read_table has started, as a set.
Started == {rt.spawned[i] : i \in 1..Len(rt.spawned)}

\* read_table raised at one of these lines.
RaisedAt(lines) == rt.pc = "raised" /\ Value(rt.exc).line \in lines

\* C3: with type inference on and the table absent from the scraped schema,
\* read_table fails with the lookup's error, returns no result and never
\* starts the export.
C3_AbsentTableFails ==
    (/\ InferenceOn
     /\ IsSome(rt.schema)
     /\ ~DictHas(Value(rt.schema), rt.table_name)) =>
        /\ rt.pc = "raised"
        /\ Value(rt.exc) = [type |-> "KeyError", line |-> 158]
        /\ ~IsSome(rt.df)
        /\ ~IsSome(rt.ret)
        /\ "mdb-export" \notin Started
        /\ rt.export_proc = "none"

\* C3's case: a schema with tables was scraped and the table is not in it.
C3_Witness ==
    /\ InferenceOn
    /\ IsSome(rt.schema)
    /\ Len(Value(rt.schema)) > 0
    /\ ~DictHas(Value(rt.schema), rt.table_name)
    /\ rt.pc = "raised"

\* The keys of a dict, as a set.
KeySet(d) == {d[i][1] : i \in 1..Len(d)}

\* C4: with type inference on, the dtype handed to the CSV parser is the
\* table's inferred types overlaid with the caller's dtype, the caller's
\* type winning for a column of both, and is handed only when not empty.
C4_DtypeDirective ==
    (InferenceOn /\ IsSome(rt.csv_kwargs)) =>
        LET inferred == Value(rt.inferred)
            specified == PopOr(rt.args.dtype, <<>>)
            columns == KeySet(inferred) \cup KeySet(specified)
            directive == Value(rt.csv_kwargs).dtype
        IN  IF columns = {} THEN ~IsSome(directive)
            ELSE /\ IsSome(directive)
                 /\ KeySet(Value(directive)) = columns
                 /\ Len(Value(directive)) = Cardinality(columns)
                 /\ \A c \in columns :
                        DictGet(Value(directive), c) =
                            IF c \in KeySet(specified)
                            THEN DictGet(specified, c)
                            ELSE DictGet(inferred, c)

\* C4's case: dtype = {A: Text} on a column inferred Integer, and another
\* column inferred.
C4_Witness ==
    /\ InferenceOn
    /\ IsSome(rt.csv_kwargs)
    /\ IsSome(rt.args.dtype)
    /\ DictHas(Value(rt.inferred), <<"A">>)
    /\ DictGet(Value(rt.inferred), <<"A">>) = "Integer"
    /\ DictGet(Value(Value(rt.csv_kwargs).dtype), <<"A">>) = "Text"
    /\ Len(Value(Value(rt.csv_kwargs).dtype)) = 2

\* The table of the call has a column whose declared type no prefix matches.
HasUnknownType ==
    LET table == TableOf(rt.db, rt.table_name) IN
    /\ IsSome(table)
    /\ \E i \in 1..Len(Value(table).columns) :
            RuleType(Value(table).columns[i].type) = "None"

\* C5: an unknown declared type never makes read_table raise: with type
\* inference on, once the CSV is parsed the call goes through the Bytes
\* pass and returns, with implicit_string true or false.
C5_UnknownTypeNeverRaises ==
    (InferenceOn /\ HasUnknownType /\ IsSome(rt.df)) => rt.pc # "raised"

\* C6, as claimed: a call with type inference on starts the schema command
\* and then the export command, two subprocesses, unless the schema command
\* fails; a call with it off starts the export command alone; the two never
\* run at once.
C6_TwoThenOne ==
    /\ ~(rt.schema_proc = "running" /\ rt.export_proc # "none")
    /\ Finished =>
        IF ~InferenceOn THEN rt.spawned = <<"mdb-export">>
        ELSE IF RaisedAt({97}) THEN rt.spawned = <<"mdb-schema">>
        ELSE rt.spawned = <<"mdb-schema", "mdb-export">>

\* C6, amended: a call that starts the export command has started two
\* subprocesses with type inference on, the schema command first and run to
\* its end before, and the export command alone with it off; the two never
\* run at once; a call that fails before (the schema command fails, its
\* output does not decode, the table is not in the scraped schema) has
\* started the schema command alone; every other call starts the export.
C6_TwoThenOneUnlessSchemaStageFails ==
    /\ ~(rt.schema_proc = "running" /\ rt.export_proc # "none")
    /\ "mdb-export" \in Started =>
        IF InferenceOn
        THEN /\ rt.spawned = <<"mdb-schema", "mdb-export">>
             /\ rt.schema_proc \in {"reaped"}
        ELSE rt.spawned = <<"mdb-export">>
    /\ Finished =>
        IF ~InferenceOn THEN rt.spawned = <<"mdb-export">>
        ELSE IF RaisedAt({97, 98, 158}) THEN rt.spawned = <<"mdb-schema">>
        ELSE rt.spawned = <<"mdb-schema", "mdb-export">>

\* C6's case: a call with type inference on has returned, after the schema
\* command and the export command.
C6_Witness ==
    /\ rt.pc = "returned"
    /\ InferenceOn
    /\ rt.spawned = <<"mdb-schema", "mdb-export">>
    /\ rt.schema_proc = "reaped"

\* C7: when read_table returns or raises after it started the export
\* command, the pipe is closed and the process reaped.
C7_ExportReleased ==
    (Finished /\ rt.export_proc # "none") =>
        /\ rt.export_pipe = "closed"
        /\ rt.export_proc = "reaped"

\* C10: with converters_from_schema false the schema is not scraped, a
\* parsed frame of one column or more goes through the Bytes pass and is
\* returned, and no reserved keyword makes the call fail.
C10_NoInferenceReturns ==
    ~InferenceOn =>
        /\ "mdb-schema" \notin Started
        /\ (IsSome(rt.df) /\ Len(Value(rt.df).columns) >= 1) =>
                rt.pc # "raised"
        /\ rt.pc = "raised" => Value(rt.exc).type # "TypeError"

====
